---- MODULE Spec2Model ----
(***************************************************************************)
(* Model of `repos sync` (cmd_sync.go): syncCmd.run lists the base         *)
(* directory, pre-loads a buffered channel with the sub-directories,       *)
(* starts c.parallel syncWorker goroutines and one goroutine that closes   *)
(* the result channel after wg.Wait(), and prints one line per result.     *)
(* Each worker ranges over the directory channel and sends syncRepo(dir)   *)
(* on the unbuffered result channel.  syncRepo is modelled step by step:   *)
(* the working-directory lookup and seven git commands that may fail.      *)
(***************************************************************************)
EXTENDS Integers, Sequences, FiniteSets, Bags, TLC

\* ------------------------------------------------------------------ bounds
MaxEntries == 2
MaxParallel == 2
MaxRepos == 3
MaxNew == 3

\* ------------------------------------------------------- values and paths
\* File names os.ReadDir can return, in the (sorted) order it returns them.
NamePool == <<"a", "b", "c", "d">>

\* The zero value of an error, and of a string.
NilErr == "<nil>"
Empty == ""

\* Short revisions `git rev-parse --short HEAD` can print.
Refs == {"abc123", "def456"}

\* filepath.Clean on a segment list: "." segments vanish, "" becomes ".".
RECURSIVE DropDots(_)
DropDots(p) ==
    IF p = <<>> THEN <<>>
    ELSE IF Head(p) = "." THEN DropDots(Tail(p))
    ELSE <<Head(p)>> \o DropDots(Tail(p))

Clean(p) == IF DropDots(p) = <<>> THEN <<".">> ELSE DropDots(p)

\* filepath.Join(a, b): the elements joined, then cleaned.
Join(a, b) == Clean(a \o <<b>>)

\* filepath.Base / path.Base: the last element.
Base(p) == IF p = <<>> THEN "." ELSE p[Len(p)]

\* bytes.TrimSpace on a token list: leading and trailing "\n" are cut.
RECURSIVE TrimLeft(_)
TrimLeft(s) ==
    IF s # <<>> /\ Head(s) = "\n" THEN TrimLeft(Tail(s)) ELSE s

RECURSIVE TrimRight(_)
TrimRight(s) ==
    IF s # <<>> /\ s[Len(s)] = "\n" THEN TrimRight(SubSeq(s, 1, Len(s) - 1)) ELSE s

TrimSpace(s) == TrimRight(TrimLeft(s))

\* string(b) for the outputs that occur: no token is "", one token is itself.
String(s) == IF s = <<>> THEN Empty ELSE s[1]

baseDir == <<".">>

\* The repository names that occur on GitHub or in the current directory.
RepoNames == {NamePool[i] : i \in 1..MaxRepos}

VARIABLES
    readErr,     \* os.ReadDir(baseDir) fails
    des,         \* what os.ReadDir returns: <<[name, isDir], ...>>
    gitDirs,     \* the paths on which os.Stat succeeds
    parallel,    \* c.parallel
    fate,        \* per target: what its git commands will do, where that is fixed
    runNo,       \* which invocation of `repos sync` this is
    earlier,     \* history: what the previous invocation synced and fetched
    presync,     \* history: per working directory, HEAD when the invocation began
    head,        \* per working directory: HEAD of the checkout
    local,       \* per working directory: the tip of the local default branch
    tracking,    \* per working directory: the upstream ref as of the last fetch
    mainpc,      \* position of syncCmd.run
    idx,         \* index of the range loop over des
    dirs,        \* buffered channel dirs: its queue
    dirsCap,     \* cap(dirs)
    dirsClosed,  \* close(dirs) was called
    resc,        \* the unbuffered channel resc: "unmade", "open" or "closed"
    wgCount,     \* the WaitGroup counter
    spawned,     \* loop variable i of the spawn loop
    closerpc,    \* position of the wg.Wait/close(resc) goroutine
    pc,          \* per worker: position
    dir,         \* per worker: the loop variable dir
    wd,          \* per worker: syncRepo's wd
    branch,      \* per worker: syncRepo's defaultBranch
    res,         \* per worker: syncRepo's res
    count,       \* the reporter's counter i
    lines,       \* what was written to os.Stderr, one element per line
    retErr,      \* the value run returned: "none" while running
    received,    \* history: the results in the order the reporter got them
    ran,         \* history: per target, the commands executed against it
    claims,      \* history: per target, how many times a worker received it
    \* --- repos github-sync (cmdSyncGtihub)
    ghpc,        \* position of cmdSyncGtihub
    ghFlags,     \* the flags -prune, -dryrun and -worktree
    github,      \* what the GitHub API answers: [repos, err]
    disk,        \* the current directory: per name "absent", "dir" or "file"
    disk0,       \* history: disk when the command started
    allReposM,   \* the names listed on the remote
    localRepoM,  \* the names of the local directories
    toClone,     \* remote names without a local directory, sorted
    toPrune,     \* local directories without a remote name, sorted
    ghLog,       \* the messages written to outLog
    ghErr,       \* the value cmdSyncGtihub returned: "none" while running
    \* --- repos new (without a name) and repos last
    versionFile, \* the digits in <cache>/testrepo-version, <<>> without the file
    tmpDir,      \* the names of the entries of ~/tmp
    newpc,       \* position of a running `repos new`
    newName,     \* the name newTestrepoVersion returned to it
    newCount,    \* history: how many times `repos new` was invoked
    latest,      \* history: the directory the latest `repos new` created
    printed      \* what the latest `repos last` printed since then

vars == <<readErr, des, gitDirs, parallel, fate, runNo, earlier, presync, head, local,
          tracking, mainpc, idx, dirs,
          dirsCap, dirsClosed, resc, wgCount, spawned, closerpc, pc, dir,
          wd, branch, res, count, lines, retErr, received, ran, claims,
          ghpc, ghFlags, github, disk, disk0, allReposM, localRepoM, toClone, toPrune,
          ghLog, ghErr, versionFile, tmpDir, newpc, newName, newCount, latest, printed>>

\* The state of `repos sync`.
syncVars == <<readErr, des, gitDirs, parallel, fate, runNo, earlier, presync, head, local,
              tracking, mainpc, idx, dirs, dirsCap, dirsClosed, resc, wgCount, spawned,
              closerpc, pc, dir, wd, branch, res, count, lines, retErr, received, ran,
              claims>>

\* The state of `repos github-sync`.
ghVars == <<ghpc, ghFlags, github, disk, disk0, allReposM, localRepoM, toClone, toPrune,
            ghLog, ghErr>>

\* The state of `repos new` and `repos last`.
tmpVars == <<versionFile, tmpDir, newpc, newName, newCount, latest, printed>>

\* What no step of a run of `repos sync` changes.
envVars == <<readErr, des, gitDirs, parallel, fate, runNo, earlier, presync, ghVars,
             tmpVars>>
mainVars == <<mainpc, idx, spawned, count, lines, retErr, received>>
workerVars == <<pc, dir, wd, branch, res>>

Workers == 1..MaxParallel

\* The paths run puts on the channel: filepath.Join(baseDir, de.Name()) of
\* the entries that are directories.
Targets ==
    {Join(baseDir, des[i].name) : i \in {j \in 1..Len(des) : des[j].isDir}}

AllPaths == {Join(baseDir, NamePool[i]) : i \in 1..Len(NamePool)}

\* The directories a git command can run in: a target or its default/.
Repos == AllPaths \cup {Join(t, "default") : t \in AllPaths}

NoDir == <<>>

ZeroResult == [dir |-> Empty, err |-> NilErr, oldRef |-> Empty, newRef |-> Empty]

\* The layouts of one directory: which of <dir>/default/.git and <dir>/.git exist.
Layouts == {"none", "default", "dir", "both"}

LayoutPaths(d, l) ==
    (IF l \in {"default", "both"} THEN {Join(Join(d, "default"), ".git")} ELSE {})
    \cup (IF l \in {"dir", "both"} THEN {Join(d, ".git")} ELSE {})

\* A target whose git commands may each succeed or fail, and whose fetch may
\* bring any revision.
AnyFate == [failAt |-> "any", ref |-> "any"]

\* Before the first invocation nothing was synced.
NoEarlier == [outcomes |-> {}, tracking |-> <<>>]

\* `repos github-sync` is not running.
GhIdle ==
    /\ ghpc = "unstarted"
    /\ ghFlags = [prune |-> FALSE, dryrun |-> FALSE, worktree |-> FALSE]
    /\ github = [repos |-> {}, err |-> FALSE]
    /\ disk = [n \in RepoNames |-> "absent"]
    /\ disk0 = disk
    /\ allReposM = {}
    /\ localRepoM = {}
    /\ toClone = <<>>
    /\ toPrune = <<>>
    /\ ghLog = <<>>
    /\ ghErr = "none"

\* Neither `repos new` nor `repos last` has run.
TmpIdle ==
    /\ versionFile = <<>>
    /\ tmpDir = {}
    /\ newpc = "idle"
    /\ newName = <<>>
    /\ newCount = 0
    /\ latest = <<>>
    /\ printed = <<>>

\* The state a first invocation starts in, whatever the commands will do.
InitRun ==
    /\ readErr \in BOOLEAN
    /\ \E n \in 0..MaxEntries :
         \E isd \in [1..n -> BOOLEAN] :
           des = [i \in 1..n |-> [name |-> NamePool[i], isDir |-> isd[i]]]
    /\ \E lay \in [1..Len(des) -> Layouts] :
         /\ \A i \in 1..Len(des) : ~des[i].isDir => lay[i] = "none"
         /\ gitDirs = UNION {LayoutPaths(Join(baseDir, des[i].name), lay[i]) :
                               i \in 1..Len(des)}
    /\ parallel \in -1..MaxParallel
    /\ local = [r \in Repos |-> "abc123"]
    /\ tracking = [r \in Repos |-> "abc123"]
    /\ mainpc = "ReadDir"
    /\ idx = 1
    /\ dirs = <<>>
    /\ dirsCap = 0
    /\ dirsClosed = FALSE
    /\ resc = "unmade"
    /\ wgCount = 0
    /\ spawned = 0
    /\ closerpc = "unstarted"
    /\ pc = [w \in Workers |-> "unstarted"]
    /\ dir = [w \in Workers |-> NoDir]
    /\ wd = [w \in Workers |-> NoDir]
    /\ branch = [w \in Workers |-> Empty]
    /\ res = [w \in Workers |-> ZeroResult]
    /\ count = 0
    /\ lines = <<>>
    /\ retErr = "none"
    /\ received = <<>>
    /\ ran = [t \in AllPaths |-> <<>>]
    /\ claims = [t \in AllPaths |-> 0]
    /\ runNo = 1
    /\ earlier = NoEarlier

\* Every checkout is on its default branch.
OnDefaultBranch ==
    /\ head = local
    /\ presync = head

Init ==
    /\ InitRun
    /\ OnDefaultBranch
    /\ GhIdle
    /\ TmpIdle
    /\ fate = [t \in AllPaths |-> AnyFate]

\* ------------------------------------------------------------ syncCmd.run
\* A line that prints both revisions even when they are equal.
LineArrow(i, r) ==
    [ord |-> i,
     name |-> r.dir,
     body |-> IF r.err # NilErr THEN <<r.err>>
              ELSE <<r.oldRef, "->", r.newRef>>]

\* The exit status Execute derives from what run returned (no extra args).
ExitStatus(err) == IF err # NilErr THEN "ExitFailure" ELSE "ExitSuccess"

\* The line the reporter prints for the i-th result it receives.
Line(i, r) ==
    [ord |-> i,
     name |-> r.dir,
     body |-> IF r.err # NilErr THEN <<r.err>>
              ELSE IF r.oldRef = r.newRef THEN <<r.newRef>>
              ELSE <<r.oldRef, "->", r.newRef>>]

\* A run that goes on after os.ReadDir failed.
ReadDirIgnoreErr ==
    /\ mainpc = "ReadDir"
    /\ mainpc' = "enqueue"
    /\ dirsCap' = Len(des)
    /\ UNCHANGED <<envVars, head, local, tracking, idx, dirs, dirsClosed, resc, wgCount,
                   spawned, closerpc, workerVars, count, lines, retErr, received,
                   ran, claims>>

\* des, err := os.ReadDir(baseDir); on error run returns it, otherwise
\* dirs := make(chan string, len(des)).
ReadDir ==
    /\ mainpc = "ReadDir"
    /\ IF readErr
       THEN /\ mainpc' = "done"
            /\ retErr' = "sync: read"
            /\ UNCHANGED dirsCap
       ELSE /\ mainpc' = "enqueue"
            /\ dirsCap' = Len(des)
            /\ UNCHANGED retErr
    /\ UNCHANGED <<envVars, head, local, tracking, idx, dirs, dirsClosed, resc, wgCount,
                   spawned, closerpc, workerVars, count, lines, received, ran,
                   claims>>

\* One iteration of `for _, de := range des`: a directory is sent on dirs,
\* which blocks while the buffer is full.
Enqueue ==
    /\ mainpc = "enqueue"
    /\ idx <= Len(des)
    /\ IF des[idx].isDir
       THEN /\ Len(dirs) < dirsCap
            /\ ~dirsClosed
            /\ dirs' = Append(dirs, Join(baseDir, des[idx].name))
       ELSE UNCHANGED dirs
    /\ idx' = idx + 1
    /\ UNCHANGED <<envVars, head, local, tracking, mainpc, dirsCap, dirsClosed, resc,
                   wgCount, spawned, closerpc, workerVars, count, lines, retErr,
                   received, ran, claims>>

\* A run that leaves dirs open when the loop over des is over.
CloseDirsLeftOpen ==
    /\ mainpc = "enqueue"
    /\ idx > Len(des)
    /\ resc' = "open"
    /\ mainpc' = "spawn"
    /\ UNCHANGED <<envVars, head, local, tracking, idx, dirs, dirsCap, dirsClosed,
                   wgCount, spawned, closerpc, workerVars, count, lines, retErr,
                   received, ran, claims>>

\* The loop over des is over: close(dirs); resc := make(chan syncResult).
CloseDirs ==
    /\ mainpc = "enqueue"
    /\ idx > Len(des)
    /\ dirsClosed' = TRUE
    /\ resc' = "open"
    /\ mainpc' = "spawn"
    /\ UNCHANGED <<envVars, head, local, tracking, idx, dirs, dirsCap, wgCount, spawned,
                   closerpc, workerVars, count, lines, retErr, received, ran,
                   claims>>

\* A spawn loop that starts a worker for every slot, whatever c.parallel is.
SpawnEverySlot ==
    /\ mainpc = "spawn"
    /\ spawned < MaxParallel
    /\ wgCount' = wgCount + 1
    /\ pc' = [pc EXCEPT ![spawned + 1] = "range"]
    /\ spawned' = spawned + 1
    /\ UNCHANGED <<envVars, head, local, tracking, mainpc, idx, dirs, dirsCap,
                   dirsClosed, resc, closerpc, dir, wd, branch, res, count,
                   lines, retErr, received, ran, claims>>

\* A spawn loop over a concurrency clamped to at least one worker.
SpawnAtLeastOne ==
    /\ mainpc = "spawn"
    /\ spawned < (IF parallel < 1 THEN 1 ELSE parallel)
    /\ wgCount' = wgCount + 1
    /\ pc' = [pc EXCEPT ![spawned + 1] = "range"]
    /\ spawned' = spawned + 1
    /\ UNCHANGED <<envVars, head, local, tracking, mainpc, idx, dirs, dirsCap,
                   dirsClosed, resc, closerpc, dir, wd, branch, res, count,
                   lines, retErr, received, ran, claims>>

\* A spawn loop that starts one worker only.
SpawnOne ==
    /\ mainpc = "spawn"
    /\ spawned < parallel
    /\ wgCount' = wgCount + 1
    /\ pc' = [pc EXCEPT ![1] = "range"]
    /\ spawned' = parallel
    /\ UNCHANGED <<envVars, head, local, tracking, mainpc, idx, dirs, dirsCap,
                   dirsClosed, resc, closerpc, dir, wd, branch, res, count,
                   lines, retErr, received, ran, claims>>

\* One iteration of `for i := 0; i < c.parallel; i++`: wg.Add(1) and
\* go syncWorker(&wg, dirs, resc).
Spawn ==
    /\ mainpc = "spawn"
    /\ spawned < parallel
    /\ wgCount' = wgCount + 1
    /\ pc' = [pc EXCEPT ![spawned + 1] = "range"]
    /\ spawned' = spawned + 1
    /\ UNCHANGED <<envVars, head, local, tracking, mainpc, idx, dirs, dirsCap,
                   dirsClosed, resc, closerpc, dir, wd, branch, res, count,
                   lines, retErr, received, ran, claims>>

\* The spawn loop is over: go func() { wg.Wait(); close(resc) }().
GoCloser ==
    /\ mainpc = "spawn"
    /\ ~(spawned < parallel)
    /\ closerpc' = "wait"
    /\ mainpc' = "report"
    /\ UNCHANGED <<envVars, head, local, tracking, idx, dirs, dirsCap, dirsClosed, resc,
                   wgCount, spawned, workerVars, count, lines, retErr, received,
                   ran, claims>>

\* A closer that does not wait for the workers.
CloserNoWait ==
    /\ closerpc = "wait"
    /\ closerpc' = "close"
    /\ UNCHANGED <<envVars, head, local, tracking, mainVars, dirs, dirsCap, dirsClosed,
                   resc, wgCount, workerVars, ran, claims>>

\* A closer that also waits for a first result to have been reported.
CloserWaitForResult ==
    /\ closerpc = "wait"
    /\ wgCount = 0
    /\ count > 0
    /\ closerpc' = "close"
    /\ UNCHANGED <<envVars, head, local, tracking, mainVars, dirs, dirsCap, dirsClosed,
                   resc, wgCount, workerVars, ran, claims>>

\* wg.Wait() returns once the counter is zero.
CloserWait ==
    /\ closerpc = "wait"
    /\ wgCount = 0
    /\ closerpc' = "close"
    /\ UNCHANGED <<envVars, head, local, tracking, mainVars, dirs, dirsCap, dirsClosed,
                   resc, wgCount, workerVars, ran, claims>>

\* close(resc)
CloserClose ==
    /\ closerpc = "close"
    /\ resc' = "closed"
    /\ closerpc' = "done"
    /\ UNCHANGED <<envVars, head, local, tracking, mainVars, dirs, dirsCap, dirsClosed,
                   wgCount, workerVars, ran, claims>>

\* The worker's state once its send `out <- syncRepo(dir)` has completed.
AfterSend(w) ==
    /\ pc' = [pc EXCEPT ![w] = "range"]
    /\ dir' = [dir EXCEPT ![w] = NoDir]
    /\ wd' = [wd EXCEPT ![w] = NoDir]
    /\ branch' = [branch EXCEPT ![w] = Empty]
    /\ res' = [res EXCEPT ![w] = ZeroResult]

\* A reporter that puts each new line in front of the earlier ones.
ReportPrepend(w) ==
    /\ mainpc = "report"
    /\ resc = "open"
    /\ pc[w] = "send"
    /\ count' = count + 1
    /\ lines' = <<Line(count + 1, res[w])>> \o lines
    /\ received' = Append(received, res[w])
    /\ AfterSend(w)
    /\ UNCHANGED <<envVars, head, local, tracking, mainpc, idx, dirs, dirsCap,
                   dirsClosed, resc, wgCount, spawned, closerpc, retErr, ran,
                   claims>>

\* One iteration of `for res := range resc`: resc is unbuffered, so the
\* receive and worker w's send `out <- syncRepo(dir)` are one step.
Report(w) ==
    /\ mainpc = "report"
    /\ resc = "open"
    /\ pc[w] = "send"
    /\ count' = count + 1
    /\ lines' = Append(lines, Line(count + 1, res[w]))
    /\ received' = Append(received, res[w])
    /\ AfterSend(w)
    /\ UNCHANGED <<envVars, head, local, tracking, mainpc, idx, dirs, dirsCap,
                   dirsClosed, resc, wgCount, spawned, closerpc, retErr, ran,
                   claims>>

\* A run that returns an error when some target failed.
ReportDoneFailing ==
    /\ mainpc = "report"
    /\ resc = "closed"
    /\ mainpc' = "done"
    /\ retErr' = IF \E i \in 1..Len(received) : received[i].err # NilErr
                 THEN "sync: failed" ELSE NilErr
    /\ UNCHANGED <<envVars, head, local, tracking, idx, dirs, dirsCap, dirsClosed, resc,
                   wgCount, spawned, closerpc, workerVars, count, lines, received,
                   ran, claims>>

\* The range over resc ends when resc is closed: return nil.
ReportDone ==
    /\ mainpc = "report"
    /\ resc = "closed"
    /\ mainpc' = "done"
    /\ retErr' = NilErr
    /\ UNCHANGED <<envVars, head, local, tracking, idx, dirs, dirsCap, dirsClosed, resc,
                   wgCount, spawned, closerpc, workerVars, count, lines, received,
                   ran, claims>>

\* ------------------------------------------------------------- syncWorker
\* A worker that reads the head of the queue without removing it.
WorkerTakePeek(w) ==
    /\ pc[w] = "range"
    /\ dirs # <<>>
    /\ claims[Head(dirs)] < 2
    /\ dir' = [dir EXCEPT ![w] = Head(dirs)]
    /\ dirs' = IF claims[Head(dirs)] = 0 THEN dirs ELSE Tail(dirs)
    /\ claims' = [claims EXCEPT ![Head(dirs)] = @ + 1]
    /\ res' = [res EXCEPT ![w] = [ZeroResult EXCEPT !.dir = Base(Head(dirs))]]
    /\ pc' = [pc EXCEPT ![w] = "resolve"]
    /\ UNCHANGED <<envVars, head, local, tracking, mainVars, dirsCap, dirsClosed, resc,
                   wgCount, closerpc, wd, branch, ran>>

\* A worker that goes for the next directory while its send is pending.
WorkerTakeWhileSending(w) ==
    /\ pc[w] \in {"range", "send"}
    /\ dirs # <<>>
    /\ dir' = [dir EXCEPT ![w] = Head(dirs)]
    /\ dirs' = Tail(dirs)
    /\ claims' = [claims EXCEPT ![Head(dirs)] = @ + 1]
    /\ res' = [res EXCEPT ![w] = [ZeroResult EXCEPT !.dir = Base(Head(dirs))]]
    /\ pc' = [pc EXCEPT ![w] = "resolve"]
    /\ UNCHANGED <<envVars, head, local, tracking, mainVars, dirsCap, dirsClosed, resc,
                   wgCount, closerpc, wd, branch, ran>>

\* `for dir := range in` receives the next directory; syncRepo starts with
\* res := syncResult{dir: filepath.Base(dir)}.
WorkerTake(w) ==
    /\ pc[w] = "range"
    /\ dirs # <<>>
    /\ dir' = [dir EXCEPT ![w] = Head(dirs)]
    /\ dirs' = Tail(dirs)
    /\ claims' = [claims EXCEPT ![Head(dirs)] = @ + 1]
    /\ res' = [res EXCEPT ![w] = [ZeroResult EXCEPT !.dir = Base(Head(dirs))]]
    /\ pc' = [pc EXCEPT ![w] = "resolve"]
    /\ UNCHANGED <<envVars, head, local, tracking, mainVars, dirsCap, dirsClosed, resc,
                   wgCount, closerpc, wd, branch, ran>>

\* A worker that returns without calling wg.Done().
WorkerExitNoDone(w) ==
    /\ pc[w] = "range"
    /\ dirs = <<>>
    /\ dirsClosed
    /\ pc' = [pc EXCEPT ![w] = "exited"]
    /\ UNCHANGED <<envVars, head, local, tracking, mainVars, dirs, dirsCap, dirsClosed,
                   resc, wgCount, closerpc, dir, wd, branch, res, ran, claims>>

\* A worker that returns although directories are still queued.
WorkerExitEarly(w) ==
    /\ pc[w] = "range"
    /\ dirsClosed
    /\ wgCount' = wgCount - 1
    /\ pc' = [pc EXCEPT ![w] = "exited"]
    /\ UNCHANGED <<envVars, head, local, tracking, mainVars, dirs, dirsCap, dirsClosed,
                   resc, closerpc, dir, wd, branch, res, ran, claims>>

\* The range over `in` ends when the channel is closed and drained; the
\* deferred wg.Done() runs.
WorkerExit(w) ==
    /\ pc[w] = "range"
    /\ dirs = <<>>
    /\ dirsClosed
    /\ wgCount' = wgCount - 1
    /\ pc' = [pc EXCEPT ![w] = "exited"]
    /\ UNCHANGED <<envVars, head, local, tracking, mainVars, dirs, dirsCap, dirsClosed,
                   resc, closerpc, dir, wd, branch, res, ran, claims>>

\* --------------------------------------------------------------- syncRepo
\* The error texts of syncRepo, by step.
ErrNoGitDir == "no git dir found"
ErrOldRef == "get old ref"
ErrRemoteBranch == "get remote default branch"
ErrCheckout == "switch to default branch"
ErrFetch == "fetch"
ErrMerge == "merge"
ErrPrune == "prune worktrees"
ErrNewRef == "get new ref"

\* os.Stat(p) returns no error.
StatOk(p) == p \in gitDirs

\* A failure written to a result shared by all workers.
FailShared(w, msg) ==
    /\ res' = [v \in Workers |-> [res[v] EXCEPT !.err = msg]]
    /\ pc' = [pc EXCEPT ![w] = "send"]

\* A failure that returns the result without setting its error.
FailSilent(w, msg) ==
    /\ res' = res
    /\ pc' = [pc EXCEPT ![w] = "send"]

\* res.err = ...; return res
Fail(w, msg) ==
    /\ res' = [res EXCEPT ![w].err = msg]
    /\ pc' = [pc EXCEPT ![w] = "send"]

\* exec.Command("git", ...) with cmd.Dir = wd, run by cmd.CombinedOutput():
\* the history records the step, the command, its directory and its result.
Exec(w, step, cmd, arg, ok, out) ==
    ran' = [ran EXCEPT ![dir[w]] =
              Append(@, [step |-> step, cmd |-> cmd, dir |-> wd[w], arg |-> arg,
                         ok |-> ok, out |-> out])]

\* A lookup that goes on to the first git command when no .git was found.
ResolveWdNoReturn(w) ==
    /\ pc[w] = "resolve"
    /\ IF StatOk(Join(Join(dir[w], "default"), ".git"))
       THEN wd' = [wd EXCEPT ![w] = Join(dir[w], "default")]
       ELSE wd' = [wd EXCEPT ![w] = dir[w]]
    /\ pc' = [pc EXCEPT ![w] = ErrOldRef]
    /\ UNCHANGED <<envVars, head, local, tracking, mainVars, dirs, dirsCap, dirsClosed,
                   resc, wgCount, closerpc, dir, branch, res, ran, claims>>

\* A lookup that prefers <dir>/.git to <dir>/default/.git.
ResolveWdPreferDir(w) ==
    /\ pc[w] = "resolve"
    /\ IF StatOk(Join(dir[w], ".git"))
       THEN /\ wd' = [wd EXCEPT ![w] = dir[w]]
            /\ pc' = [pc EXCEPT ![w] = ErrOldRef]
            /\ UNCHANGED res
       ELSE IF StatOk(Join(Join(dir[w], "default"), ".git"))
            THEN /\ wd' = [wd EXCEPT ![w] = Join(dir[w], "default")]
                 /\ pc' = [pc EXCEPT ![w] = ErrOldRef]
                 /\ UNCHANGED res
            ELSE /\ wd' = [wd EXCEPT ![w] = dir[w]]
                 /\ Fail(w, ErrNoGitDir)
    /\ UNCHANGED <<envVars, head, local, tracking, mainVars, dirs, dirsCap, dirsClosed,
                   resc, wgCount, closerpc, dir, branch, ran, claims>>

\* The results cmd.CombinedOutput() can have for worker w's command of step
\* `step`: TRUE is a nil error.
CmdResults(w, step) ==
    IF fate[dir[w]].failAt = "any" THEN BOOLEAN ELSE {fate[dir[w]].failAt # step}

\* The revisions worker w's fetch can find on the remote.
FetchedRefs(w) ==
    IF fate[dir[w]].ref = "any" THEN Refs ELSE {fate[dir[w]].ref}

\* wd := filepath.Join(dir, "default"); if os.Stat(filepath.Join(wd, ".git"))
\* fails, wd = dir; if os.Stat(filepath.Join(wd, ".git")) fails too, the
\* result is "no git dir found".
ResolveWd(w) ==
    /\ pc[w] = "resolve"
    /\ IF StatOk(Join(Join(dir[w], "default"), ".git"))
       THEN /\ wd' = [wd EXCEPT ![w] = Join(dir[w], "default")]
            /\ pc' = [pc EXCEPT ![w] = ErrOldRef]
            /\ UNCHANGED res
       ELSE /\ wd' = [wd EXCEPT ![w] = dir[w]]
            /\ IF StatOk(Join(dir[w], ".git"))
               THEN /\ pc' = [pc EXCEPT ![w] = ErrOldRef]
                    /\ UNCHANGED res
               ELSE Fail(w, ErrNoGitDir)
    /\ UNCHANGED <<envVars, head, local, tracking, mainVars, dirs, dirsCap, dirsClosed,
                   resc, wgCount, closerpc, dir, branch, ran, claims>>

\* What `git rev-parse --short HEAD` prints in checkout r.
RevParseHead(r) == <<head[r], "\n">>

\* What `git rev-parse --abbrev-ref origin/HEAD` prints.
RevParseOriginHead == <<"origin", "main", "\n">>

\* GetOldRef storing the output before it looks at the error.
GetOldRefBeforeCheck(w) ==
    /\ pc[w] = ErrOldRef
    /\ \E ok \in CmdResults(w, ErrOldRef) :
         /\ Exec(w, ErrOldRef, "rev-parse --short HEAD", Empty, ok,
                 IF ok THEN RevParseHead(wd[w]) ELSE <<>>)
         /\ IF ok
            THEN /\ res' = [res EXCEPT
                              ![w].oldRef = String(TrimSpace(RevParseHead(wd[w])))]
                 /\ pc' = [pc EXCEPT ![w] = ErrRemoteBranch]
            ELSE /\ res' = [res EXCEPT ![w].oldRef = "fatal:", ![w].err = ErrOldRef]
                 /\ pc' = [pc EXCEPT ![w] = "send"]
    /\ UNCHANGED <<envVars, head, local, tracking, mainVars, dirs, dirsCap, dirsClosed,
                   resc, wgCount, closerpc, dir, wd, branch, claims>>

\* git rev-parse --short HEAD; res.oldRef = string(bytes.TrimSpace(out))
GetOldRef(w) ==
    /\ pc[w] = ErrOldRef
    /\ \E ok \in CmdResults(w, ErrOldRef) :
         /\ Exec(w, ErrOldRef, "rev-parse --short HEAD", Empty, ok,
                 IF ok THEN RevParseHead(wd[w]) ELSE <<>>)
         /\ IF ok
            THEN /\ res' = [res EXCEPT
                              ![w].oldRef = String(TrimSpace(RevParseHead(wd[w])))]
                 /\ pc' = [pc EXCEPT ![w] = ErrRemoteBranch]
            ELSE Fail(w, ErrOldRef)
    /\ UNCHANGED <<envVars, head, local, tracking, mainVars, dirs, dirsCap, dirsClosed,
                   resc, wgCount, closerpc, dir, wd, branch, claims>>

\* A lookup of the default branch that goes on to the fetch without the checkout.
GetRemoteBranchSkipCheckout(w) ==
    /\ pc[w] = ErrRemoteBranch
    /\ \E ok \in CmdResults(w, ErrRemoteBranch) :
         /\ Exec(w, ErrRemoteBranch, "rev-parse --abbrev-ref origin/HEAD", Empty, ok,
                 IF ok THEN RevParseOriginHead ELSE <<>>)
         /\ IF ok
            THEN /\ branch' = [branch EXCEPT
                                 ![w] = Base(TrimSpace(RevParseOriginHead))]
                 /\ pc' = [pc EXCEPT ![w] = ErrFetch]
                 /\ UNCHANGED res
            ELSE /\ Fail(w, ErrRemoteBranch)
                 /\ UNCHANGED branch
    /\ UNCHANGED <<envVars, head, local, tracking, mainVars, dirs, dirsCap, dirsClosed,
                   resc, wgCount, closerpc, dir, wd, claims>>

\* git rev-parse --abbrev-ref origin/HEAD;
\* defaultBranch := path.Base(string(bytes.TrimSpace(out)))
GetRemoteBranch(w) ==
    /\ pc[w] = ErrRemoteBranch
    /\ \E ok \in CmdResults(w, ErrRemoteBranch) :
         /\ Exec(w, ErrRemoteBranch, "rev-parse --abbrev-ref origin/HEAD", Empty, ok,
                 IF ok THEN RevParseOriginHead ELSE <<>>)
         /\ IF ok
            THEN /\ branch' = [branch EXCEPT
                                 ![w] = Base(TrimSpace(RevParseOriginHead))]
                 /\ pc' = [pc EXCEPT ![w] = ErrCheckout]
                 /\ UNCHANGED res
            ELSE /\ Fail(w, ErrRemoteBranch)
                 /\ UNCHANGED branch
    /\ UNCHANGED <<envVars, head, local, tracking, mainVars, dirs, dirsCap, dirsClosed,
                   resc, wgCount, closerpc, dir, wd, claims>>

\* What `git checkout <branch>` prints.
CheckoutOut(r) ==
    IF head[r] = local[r] THEN <<"Already on", "\n">> ELSE <<"Switched to branch", "\n">>

\* What `git merge --ff-only` prints.
MergeOut(r) ==
    IF head[r] = tracking[r] THEN <<"Already up to date.", "\n">> ELSE <<"Updating", "\n">>

\* A checkout whose error is not checked.
CheckoutIgnoreErr(w) ==
    /\ pc[w] = ErrCheckout
    /\ \E ok \in CmdResults(w, ErrCheckout) :
         /\ Exec(w, ErrCheckout, "checkout", branch[w], ok,
                 IF ok THEN CheckoutOut(wd[w]) ELSE <<>>)
         /\ IF ok
            THEN head' = [head EXCEPT ![wd[w]] = local[wd[w]]]
            ELSE UNCHANGED head
    /\ pc' = [pc EXCEPT ![w] = ErrFetch]
    /\ UNCHANGED <<envVars, local, tracking, mainVars, dirs, dirsCap, dirsClosed,
                   resc, wgCount, closerpc, dir, wd, branch, res, claims>>

\* git checkout defaultBranch: on success HEAD is the tip of the local
\* default branch, whatever was checked out before.
Checkout(w) ==
    /\ pc[w] = ErrCheckout
    /\ \E ok \in CmdResults(w, ErrCheckout) :
         /\ Exec(w, ErrCheckout, "checkout", branch[w], ok,
                 IF ok THEN CheckoutOut(wd[w]) ELSE <<>>)
         /\ IF ok
            THEN /\ head' = [head EXCEPT ![wd[w]] = local[wd[w]]]
                 /\ pc' = [pc EXCEPT ![w] = ErrFetch]
                 /\ UNCHANGED res
            ELSE /\ Fail(w, ErrCheckout)
                 /\ UNCHANGED head
    /\ UNCHANGED <<envVars, local, tracking, mainVars, dirs, dirsCap, dirsClosed,
                   resc, wgCount, closerpc, dir, wd, branch, claims>>

\* git fetch --tags --prune --prune-tags --force --jobs=10: on success the
\* upstream ref is whatever the remote has.
Fetch(w) ==
    /\ pc[w] = ErrFetch
    /\ \E ok \in CmdResults(w, ErrFetch) :
         /\ Exec(w, ErrFetch, "fetch", Empty, ok, <<>>)
         /\ IF ok
            THEN /\ \E r \in FetchedRefs(w) : tracking' = [tracking EXCEPT ![wd[w]] = r]
                 /\ pc' = [pc EXCEPT ![w] = ErrMerge]
                 /\ UNCHANGED res
            ELSE /\ Fail(w, ErrFetch)
                 /\ UNCHANGED tracking
    /\ UNCHANGED <<envVars, head, local, mainVars, dirs, dirsCap, dirsClosed, resc,
                   wgCount, closerpc, dir, wd, branch, claims>>

\* A merge whose failure is recorded but does not return.
MergeNoReturn(w) ==
    /\ pc[w] = ErrMerge
    /\ \E ok \in CmdResults(w, ErrMerge) :
         /\ Exec(w, ErrMerge, "merge --ff-only", Empty, ok,
                 IF ok THEN MergeOut(wd[w]) ELSE <<>>)
         /\ IF ok
            THEN /\ head' = [head EXCEPT ![wd[w]] = tracking[wd[w]]]
                 /\ local' = [local EXCEPT ![wd[w]] = tracking[wd[w]]]
                 /\ UNCHANGED res
            ELSE /\ res' = [res EXCEPT ![w].err = ErrMerge]
                 /\ UNCHANGED <<head, local>>
    /\ pc' = [pc EXCEPT ![w] = ErrPrune]
    /\ UNCHANGED <<envVars, tracking, mainVars, dirs, dirsCap, dirsClosed, resc,
                   wgCount, closerpc, dir, wd, branch, claims>>

\* git merge --ff-only --autostash: on success HEAD is the upstream ref; it
\* fails when the histories diverged.
Merge(w) ==
    /\ pc[w] = ErrMerge
    /\ \E ok \in CmdResults(w, ErrMerge) :
         /\ Exec(w, ErrMerge, "merge --ff-only", Empty, ok,
                 IF ok THEN MergeOut(wd[w]) ELSE <<>>)
         /\ IF ok
            THEN /\ head' = [head EXCEPT ![wd[w]] = tracking[wd[w]]]
                 /\ local' = [local EXCEPT ![wd[w]] = tracking[wd[w]]]
                 /\ pc' = [pc EXCEPT ![w] = ErrPrune]
                 /\ UNCHANGED res
            ELSE /\ Fail(w, ErrMerge)
                 /\ UNCHANGED <<head, local>>
    /\ UNCHANGED <<envVars, tracking, mainVars, dirs, dirsCap, dirsClosed, resc,
                   wgCount, closerpc, dir, wd, branch, claims>>

\* A prune treated as best effort: its error is not checked.
PruneBestEffort(w) ==
    /\ pc[w] = ErrPrune
    /\ \E ok \in CmdResults(w, ErrPrune) :
         Exec(w, ErrPrune, "worktree prune", Empty, ok, <<>>)
    /\ pc' = [pc EXCEPT ![w] = ErrNewRef]
    /\ UNCHANGED <<envVars, head, local, tracking, mainVars, dirs, dirsCap, dirsClosed,
                   resc, wgCount, closerpc, dir, wd, branch, res, claims>>

\* git worktree prune
Prune(w) ==
    /\ pc[w] = ErrPrune
    /\ \E ok \in CmdResults(w, ErrPrune) :
         /\ Exec(w, ErrPrune, "worktree prune", Empty, ok, <<>>)
         /\ IF ok
            THEN /\ pc' = [pc EXCEPT ![w] = ErrNewRef]
                 /\ UNCHANGED res
            ELSE Fail(w, ErrPrune)
    /\ UNCHANGED <<envVars, head, local, tracking, mainVars, dirs, dirsCap, dirsClosed,
                   resc, wgCount, closerpc, dir, wd, branch, claims>>

\* GetNewRef reporting the revision read before the merge.
GetNewRefStale(w) ==
    /\ pc[w] = ErrNewRef
    /\ \E ok \in CmdResults(w, ErrNewRef) :
         /\ Exec(w, ErrNewRef, "rev-parse --short HEAD", Empty, ok,
                 IF ok THEN RevParseHead(wd[w]) ELSE <<>>)
         /\ IF ok
            THEN /\ res' = [res EXCEPT ![w].newRef = res[w].oldRef]
                 /\ pc' = [pc EXCEPT ![w] = "send"]
            ELSE Fail(w, ErrNewRef)
    /\ UNCHANGED <<envVars, head, local, tracking, mainVars, dirs, dirsCap, dirsClosed,
                   resc, wgCount, closerpc, dir, wd, branch, claims>>

\* git rev-parse --short HEAD; res.newRef = string(bytes.TrimSpace(out));
\* return res
GetNewRef(w) ==
    /\ pc[w] = ErrNewRef
    /\ \E ok \in CmdResults(w, ErrNewRef) :
         /\ Exec(w, ErrNewRef, "rev-parse --short HEAD", Empty, ok,
                 IF ok THEN RevParseHead(wd[w]) ELSE <<>>)
         /\ IF ok
            THEN /\ res' = [res EXCEPT
                              ![w].newRef = String(TrimSpace(RevParseHead(wd[w])))]
                 /\ pc' = [pc EXCEPT ![w] = "send"]
            ELSE Fail(w, ErrNewRef)
    /\ UNCHANGED <<envVars, head, local, tracking, mainVars, dirs, dirsCap, dirsClosed,
                   resc, wgCount, closerpc, dir, wd, branch, claims>>

\* ---------------------------------------------------------- specification
SyncRepoStep(w) ==
    \/ ResolveWd(w)
    \/ GetOldRef(w)
    \/ GetRemoteBranch(w)
    \/ Checkout(w)
    \/ Fetch(w)
    \/ Merge(w)
    \/ Prune(w)
    \/ GetNewRef(w)

Worker(w) == WorkerTake(w) \/ WorkerExit(w) \/ SyncRepoStep(w)

Main == ReadDir \/ Enqueue \/ CloseDirs \/ Spawn \/ GoCloser \/ ReportDone
          \/ \E w \in Workers : Report(w)

Closer == CloserWait \/ CloserClose

Next == Main \/ Closer \/ \E w \in Workers : Worker(w)

Spec == Init /\ [][Next]_vars

\* The fixed behaviours of one target's commands: the step that fails, if
\* any, and the revision the remote has.
Fates ==
    [failAt : {"none", ErrOldRef, ErrRemoteBranch, ErrCheckout, ErrFetch, ErrMerge,
               ErrPrune, ErrNewRef},
     ref : Refs]

\* A run in which what every command does is fixed per target beforehand.
DetInit ==
    /\ InitRun
    /\ OnDefaultBranch
    /\ GhIdle
    /\ TmpIdle
    /\ ~readErr
    /\ parallel >= 1
    /\ LET checkouts == {t \in Targets : (LayoutPaths(t, "both") \cap gitDirs) # {}}
       IN  \E f \in [checkouts -> Fates] :
             fate = [t \in AllPaths |-> IF t \in checkouts THEN f[t] ELSE AnyFate]

DetSpec == DetInit /\ [][Next]_vars

\* `repos sync` is invoked again after the first invocation returned nil:
\* a new process starts on the same file system, so the checkouts keep
\* their HEAD and upstream ref and everything else starts afresh.
RunAgain ==
    /\ runNo = 1
    /\ mainpc = "done"
    /\ retErr = NilErr
    /\ runNo' = runNo + 1
    /\ earlier' = [outcomes |-> {received[i] : i \in {j \in 1..Len(received) :
                                                         received[j].err = NilErr}},
                   tracking |-> tracking]
    /\ mainpc' = "ReadDir"
    /\ idx' = 1
    /\ dirs' = <<>>
    /\ dirsCap' = 0
    /\ dirsClosed' = FALSE
    /\ resc' = "unmade"
    /\ wgCount' = 0
    /\ spawned' = 0
    /\ closerpc' = "unstarted"
    /\ pc' = [w \in Workers |-> "unstarted"]
    /\ dir' = [w \in Workers |-> NoDir]
    /\ wd' = [w \in Workers |-> NoDir]
    /\ branch' = [w \in Workers |-> Empty]
    /\ res' = [w \in Workers |-> ZeroResult]
    /\ count' = 0
    /\ lines' = <<>>
    /\ retErr' = "none"
    /\ received' = <<>>
    /\ ran' = [t \in AllPaths |-> <<>>]
    /\ claims' = [t \in AllPaths |-> 0]
    /\ presync' = head
    /\ UNCHANGED <<readErr, des, gitDirs, parallel, fate, head, local, tracking, ghVars,
                   tmpVars>>

\* Two invocations in a row over a base directory that can be listed.
TwiceInit ==
    /\ Init
    /\ ~readErr
    /\ parallel >= 1

TwiceSpec == TwiceInit /\ [][Next \/ RunAgain]_vars

\* The Go scheduler runs every goroutine that can take a step, and every git
\* command is taken to terminate.
Fairness ==
    /\ WF_vars(Main)
    /\ WF_vars(Closer)
    /\ \A w \in Workers : WF_vars(Worker(w))

\* As Fairness, but the reporter may stop receiving: nothing obliges it to
\* take a result that a worker offers.
StallFairness ==
    /\ WF_vars(ReadDir \/ Enqueue \/ CloseDirs \/ Spawn \/ GoCloser \/ ReportDone)
    /\ WF_vars(Closer)
    /\ \A w \in Workers : WF_vars(Worker(w))

StallSpec == Spec /\ StallFairness

FairSpec == Spec /\ Fairness

\* ------------------------------------------- cmdSyncGtihub (main.go)
\* `repos sync` is not running and has not run.
SyncIdle ==
    /\ InitRun
    /\ OnDefaultBranch
    /\ fate = [t \in AllPaths |-> AnyFate]
    /\ readErr
    /\ des = <<>>
    /\ parallel = 0

\* sort.Strings / sort.Slice on names of one owner: the order of NamePool.
Sorted(S) == SelectSeq(NamePool, LAMBDA n : n \in S)

\* The destination of the clone of r.
CloneDst(r) == IF ghFlags.worktree THEN <<r, "default">> ELSE <<r>>

\* `git clone u dst` creates dst and its parents; it fails when dst's first
\* element exists as a file, and may fail for other reasons.
CloneResults(r) == IF disk[r] = "absent" THEN BOOLEAN ELSE {FALSE}

GhInit ==
    /\ SyncIdle
    /\ TmpIdle
    /\ ghpc = "list"
    /\ ghFlags \in [prune : BOOLEAN, dryrun : BOOLEAN, worktree : BOOLEAN]
    /\ \E rs \in SUBSET RepoNames : github = [repos |-> rs, err |-> FALSE]
    /\ disk \in [RepoNames -> {"absent", "dir", "file"}]
    /\ disk0 = disk
    /\ allReposM = {}
    /\ localRepoM = {}
    /\ toClone = <<>>
    /\ toPrune = <<>>
    /\ ghLog = <<>>
    /\ ghErr = "none"

\* The loops over client.Repositories.List / ListByOrg: an error returns,
\* otherwise allReposM holds every listed name.
GhList ==
    /\ ghpc = "list"
    /\ \E ok \in BOOLEAN :
         IF ok
         THEN /\ allReposM' = github.repos
              /\ ghpc' = "readdir"
              /\ UNCHANGED ghErr
         ELSE /\ ghErr' = "list repos"
              /\ ghpc' = "done"
              /\ UNCHANGED allReposM
    /\ UNCHANGED <<syncVars, tmpVars, ghFlags, github, disk, disk0, localRepoM, toClone,
                   toPrune, ghLog>>

\* os.ReadDir("."): an error returns; otherwise localRepoM holds the
\* directories, toClone the remote names not in localRepoM and toPrune the
\* names of localRepoM not on the remote, both sorted.
GhPlan ==
    /\ ghpc = "readdir"
    /\ \E ok \in BOOLEAN :
         IF ok
         THEN LET dirsHere == {n \in RepoNames : disk[n] = "dir"}
              IN  /\ localRepoM' = dirsHere
                  /\ toClone' = Sorted(allReposM \ dirsHere)
                  /\ toPrune' = Sorted(dirsHere \ allReposM)
                  /\ ghpc' = "act"
                  /\ UNCHANGED ghErr
         ELSE /\ ghErr' = "read ."
              /\ ghpc' = "done"
              /\ UNCHANGED <<localRepoM, toClone, toPrune>>
    /\ UNCHANGED <<syncVars, tmpVars, ghFlags, github, disk, disk0, allReposM, ghLog>>

\* One iteration of `for _, r := range toClone`: the message is printed and,
\* unless -dryrun, git clone is run; its error goes into the message.
GhClone ==
    /\ ghpc = "act"
    /\ toClone # <<>>
    /\ LET r == Head(toClone)
       IN  IF ghFlags.dryrun
           THEN /\ ghLog' = Append(ghLog, [msg |-> "git clone", arg |-> CloneDst(r),
                                           err |-> FALSE])
                /\ UNCHANGED disk
           ELSE \E ok \in CloneResults(r) :
                  /\ ghLog' = Append(ghLog, [msg |-> "git clone", arg |-> CloneDst(r),
                                             err |-> ~ok])
                  /\ disk' = IF ok THEN [disk EXCEPT ![r] = "dir"] ELSE disk
    /\ toClone' = Tail(toClone)
    /\ UNCHANGED <<syncVars, tmpVars, ghpc, ghFlags, github, disk0, allReposM, localRepoM,
                   toPrune, ghErr>>

\* One iteration of `for _, r := range toPrune`: the message is printed and,
\* unless -dryrun, os.RemoveAll(r) is run; its error goes into the message.
GhPrune ==
    /\ ghpc = "act"
    /\ toClone = <<>>
    /\ toPrune # <<>>
    /\ LET r == Head(toPrune)
       IN  IF ghFlags.dryrun
           THEN /\ ghLog' = Append(ghLog, [msg |-> "rm -rf", arg |-> <<r>>, err |-> FALSE])
                /\ UNCHANGED disk
           ELSE \E ok \in BOOLEAN :
                  /\ ghLog' = Append(ghLog, [msg |-> "rm -rf", arg |-> <<r>>, err |-> ~ok])
                  /\ disk' = IF ok THEN [disk EXCEPT ![r] = "absent"] ELSE disk
    /\ toPrune' = Tail(toPrune)
    /\ UNCHANGED <<syncVars, tmpVars, ghpc, ghFlags, github, disk0, allReposM, localRepoM,
                   toClone, ghErr>>

\* Both loops are over: return nil.
GhReturn ==
    /\ ghpc = "act"
    /\ toClone = <<>>
    /\ toPrune = <<>>
    /\ ghpc' = "done"
    /\ ghErr' = NilErr
    /\ UNCHANGED <<syncVars, tmpVars, ghFlags, github, disk, disk0, allReposM, localRepoM,
                   toClone, toPrune, ghLog>>

GhNext == GhList \/ GhPlan \/ GhClone \/ GhPrune \/ GhReturn

GhSpec == GhInit /\ [][GhNext]_vars

\* ------------------------------ repos new (cmd_new.go), repos last (cmd_last.go)
\* The width of %04d in the name of a test repository.
Width == 4

\* strconv.Itoa and %d: the decimal digits of n >= 0.
RECURSIVE Itoa(_)
Itoa(n) == IF n < 10 THEN <<n>> ELSE Itoa(n \div 10) \o <<n % 10>>

\* strconv.Atoi whose error is dropped: no digits give 0.
RECURSIVE Atoi(_)
Atoi(d) == IF d = <<>> THEN 0 ELSE Atoi(SubSeq(d, 1, Len(d) - 1)) * 10 + d[Len(d)]

\* %04d pads with zeros up to Width digits and never cuts.
RECURSIVE PadZero(_)
PadZero(d) == IF Len(d) < Width THEN PadZero(<<0>> \o d) ELSE d

\* fmt.Sprintf("testrepo%04d", ctr): the prefix, then one element per digit.
TestrepoName(ctr) == <<"testrepo">> \o PadZero(Itoa(ctr))

\* Another entry of ~/tmp; as a file name it sorts before every testrepo.
Scratch == <<"scratch">>

\* strings.HasPrefix(n, "testrepo")
HasPrefix(n) == n # <<>> /\ n[1] = "testrepo"

\* a > b for two strings of digits: the first differing byte decides, and a
\* proper prefix is the smaller one.
RECURSIVE GreaterDigits(_, _)
GreaterDigits(a, b) ==
    IF a = <<>> THEN FALSE
    ELSE IF b = <<>> THEN TRUE
    ELSE IF a[1] # b[1] THEN a[1] > b[1]
    ELSE GreaterDigits(Tail(a), Tail(b))

\* n > last, for a name n with the prefix and last either "" or such a name.
Greater(n, last) == IF last = <<>> THEN TRUE ELSE GreaterDigits(Tail(n), Tail(last))

\* The order of file names os.ReadDir sorts by.
NameGreater(x, y) ==
    IF HasPrefix(x) /\ HasPrefix(y) THEN GreaterDigits(Tail(x), Tail(y))
    ELSE HasPrefix(x) /\ ~HasPrefix(y)

\* os.ReadDir(tmpDir): the entries sorted by file name.
RECURSIVE ReadDirSorted(_)
ReadDirSorted(S) ==
    IF S = {}
    THEN <<>>
    ELSE LET m == CHOOSE x \in S : \A y \in S \ {x} : NameGreater(y, x)
         IN  <<m>> \o ReadDirSorted(S \ {m})

\* The loop of lastCmd.run over des, starting from last.
RECURSIVE ScanLast(_, _)
ScanLast(ds, last) ==
    IF ds = <<>>
    THEN last
    ELSE ScanLast(Tail(ds),
                  IF HasPrefix(Head(ds)) /\ Greater(Head(ds), last) THEN Head(ds) ELSE last)

\* The counter values the version file may hold when the first `repos new`
\* of the sequence runs.
StartVersions == {0, 8, 98, 998, 9997}

TmpInit ==
    /\ SyncIdle
    /\ GhIdle
    /\ \E c \in StartVersions :
         /\ versionFile = IF c = 0 THEN <<>> ELSE Itoa(c)
         /\ tmpDir \in SUBSET ({Scratch} \cup IF c = 0 THEN {} ELSE {TestrepoName(c)})
    /\ newpc = "idle"
    /\ newName = <<>>
    /\ newCount = 0
    /\ latest = <<>>
    /\ printed = <<>>

\* `repos new` without a name, up to base = <home>/tmp: newTestrepoVersion
\* reads the counter, increments it, writes it back and returns the name; a
\* failing read or write ends the command.
NewVersion ==
    /\ newpc = "idle"
    /\ newCount < MaxNew
    /\ newCount' = newCount + 1
    /\ \E ok \in BOOLEAN :
         IF ok
         THEN /\ versionFile' = Itoa(Atoi(versionFile) + 1)
              /\ newName' = TestrepoName(Atoi(versionFile) + 1)
              /\ newpc' = "run"
         ELSE UNCHANGED <<versionFile, newName, newpc>>
    /\ UNCHANGED <<syncVars, ghVars, tmpDir, latest, printed>>

\* newCmd.run: os.MkdirAll(<home>/tmp/<name>) creates the directory, or
\* fails and ends the command; the steps after it add nothing to ~/tmp.
NewRun ==
    /\ newpc = "run"
    /\ \E ok \in BOOLEAN :
         IF ok
         THEN /\ tmpDir' = tmpDir \cup {newName}
              /\ latest' = newName
              /\ printed' = <<>>
         ELSE UNCHANGED <<tmpDir, latest, printed>>
    /\ newpc' = "idle"
    /\ newName' = <<>>
    /\ UNCHANGED <<syncVars, ghVars, versionFile, newCount>>

\* lastCmd.run: the greatest name with the prefix among the entries of
\* ~/tmp is printed; nothing is printed when os.ReadDir fails or no entry
\* has the prefix.
Last ==
    /\ \E ok \in BOOLEAN :
         printed' = IF ok THEN ScanLast(ReadDirSorted(tmpDir), <<>>) ELSE <<>>
    /\ UNCHANGED <<syncVars, ghVars, versionFile, tmpDir, newpc, newName, newCount, latest>>

TmpNext == NewVersion \/ NewRun \/ Last

TmpSpec == TmpInit /\ [][TmpNext]_vars

\* ----------------------------------------------------------------- claims
\* The names run enqueued, in order: the final path segment of every target.
RECURSIVE NamesOfEntries(_)
NamesOfEntries(es) ==
    IF es = <<>> THEN <<>>
    ELSE (IF Head(es).isDir THEN <<Base(Join(baseDir, Head(es).name))>> ELSE <<>>)
         \o NamesOfEntries(Tail(es))

RECURSIVE BagOf(_)
BagOf(q) == IF q = <<>> THEN EmptyBag ELSE SetToBag({Head(q)}) (+) BagOf(Tail(q))

ReceivedNames == [i \in 1..Len(received) |-> received[i].dir]

TargetNames == NamesOfEntries(des)

\* run has returned nil.
Returned == mainpc = "done" /\ retErr = NilErr

Started == {w \in Workers : pc[w] # "unstarted"}

InSyncRepo(w) == pc[w] \notin {"unstarted", "range", "send", "exited"}

\* C1: with concurrency >= 1 the reporter never holds an outcome twice, and
\* when run has returned it holds exactly one outcome per enumerated target:
\* the multiset of outcome names is the multiset of target names.
C1_OneOutcomePerTarget ==
    parallel >= 1 =>
      /\ BagOf(ReceivedNames) \sqsubseteq BagOf(TargetNames)
      /\ Returned =>
           /\ Len(received) = Len(TargetNames)
           /\ BagOf(ReceivedNames) = BagOf(TargetNames)

C1_Witness ==
    /\ Returned
    /\ parallel = 2
    /\ Len(TargetNames) = 2
    /\ Len(received) = 2
    /\ received[1].dir = "b"

\* C2: under fair scheduling a run with concurrency >= 1 terminates: every
\* worker has exited, the result channel is closed and run has returned.
C2_Terminates ==
    (parallel >= 1 /\ ~readErr) =>
      <>(/\ Returned
         /\ resc = "closed"
         /\ closerpc = "done"
         /\ \A w \in Started : pc[w] = "exited")

C2_Witness ==
    /\ Returned
    /\ resc = "closed"
    /\ parallel = 2
    /\ Len(received) = 2
    /\ \A w \in Workers : pc[w] = "exited"

\* C3: the result channel is closed only when every started worker has
\* exited: while it is closed no worker is processing a target or waiting to
\* send, and every claimed target's outcome has been received.
C3_CloseAfterWorkers ==
    (resc = "closed" \/ closerpc = "close") =>
      /\ \A w \in Started : pc[w] = "exited"
      /\ Cardinality(Started) = (IF parallel > 0 THEN parallel ELSE 0)
      /\ \A t \in AllPaths : claims[t] = Len(SelectSeq(ReceivedNames, LAMBDA n : n = Base(t)))

C3_Witness ==
    /\ resc = "closed"
    /\ parallel = 2
    /\ Len(received) = 2
    /\ mainpc = "report"

\* C4: a run with concurrency c >= 1 starts exactly c workers, and a worker
\* has exited only if the queue is closed and empty.
C4_WorkerPool ==
    /\ Cardinality(Started) <= (IF parallel > 0 THEN parallel ELSE 0)
    /\ (parallel >= 1 /\ mainpc \in {"report", "done"} /\ ~readErr) =>
         Cardinality(Started) = parallel
    /\ \A w \in Workers : pc[w] = "exited" => (dirsClosed /\ dirs = <<>>)

C4_Witness ==
    /\ parallel = 2
    /\ Len(TargetNames) = 1
    /\ pc[1] = "exited"
    /\ pc[2] = "exited"
    /\ Len(received) = 1

\* C5: every target is received from the queue by exactly one worker over
\* the run, and no two workers ever hold the same target or work in the
\* same directory.
C5_ExclusiveTargets ==
    /\ \A t \in AllPaths : claims[t] <= 1
    /\ \A v, w \in Workers :
         (v # w /\ dir[v] # NoDir) => (dir[v] # dir[w] /\ (wd[v] # NoDir => wd[v] # wd[w]))
    /\ (Returned /\ parallel >= 1) =>
         \A t \in AllPaths : claims[t] = (IF t \in Targets THEN 1 ELSE 0)

C5_Witness ==
    /\ InSyncRepo(1)
    /\ InSyncRepo(2)
    /\ wd[1] # NoDir
    /\ wd[2] # NoDir

\* The steps of syncRepo that run a git command, in the order of the code.
GitSteps == <<ErrOldRef, ErrRemoteBranch, ErrCheckout, ErrFetch, ErrMerge, ErrPrune,
              ErrNewRef>>

\* The outcomes syncRepo has returned for target t: the ones received by the
\* reporter and the ones a worker is sending.
OutcomesOf(t) ==
    {received[i] : i \in {j \in 1..Len(received) : received[j].dir = Base(t)}}
    \cup {res[w] : w \in {v \in Workers : pc[v] = "send" /\ dir[v] = t}}

\* The outputs of the successful runs of step s in history h.
OutputsOf(h, s) == {h[i].out : i \in {j \in 1..Len(h) : h[j].step = s /\ h[j].ok}}

\* The steps that failed in history h.
FailedSteps(h) == {h[i].step : i \in {j \in 1..Len(h) : ~h[j].ok}}

RefOf(outs) == IF outs = {} THEN Empty ELSE String(TrimSpace(CHOOSE o \in outs : TRUE))

\* The outcome that the results of the commands run against t alone lead to.
OwnOutcome(t) ==
    [dir |-> Base(t),
     err |-> IF ran[t] = <<>> THEN ErrNoGitDir
             ELSE IF FailedSteps(ran[t]) # {} THEN CHOOSE e \in FailedSteps(ran[t]) : TRUE
             ELSE NilErr,
     oldRef |-> RefOf(OutputsOf(ran[t], ErrOldRef)),
     newRef |-> RefOf(OutputsOf(ran[t], ErrNewRef))]

\* C6: the outcome of a target is determined by the results of the steps run
\* against that target alone, whatever happens to the other targets, and
\* when run has returned every target has its outcome.
C6_FailuresContained ==
    /\ \A t \in AllPaths : \A o \in OutcomesOf(t) : o = OwnOutcome(t)
    /\ (Returned /\ parallel >= 1) => \A t \in Targets : OutcomesOf(t) # {}

C6_Witness ==
    /\ Returned
    /\ Len(received) = 2
    /\ received[1].err = ErrFetch
    /\ received[2].err = NilErr

IsSuccess(o) == o.err = NilErr /\ o.oldRef # Empty /\ o.newRef # Empty

IsFailure(o) == o.err # NilErr /\ o.err # Empty

\* C7: every outcome syncRepo returns is either a success with both
\* revisions populated or a failure with an error text, and never both.
C7_SuccessXorFailure ==
    \A t \in AllPaths : \A o \in OutcomesOf(t) : IsSuccess(o) # IsFailure(o)

C7_Witness ==
    \E v, w \in Workers :
      /\ pc[v] = "send" /\ IsSuccess(res[v])
      /\ pc[w] = "send" /\ IsFailure(res[w]) /\ res[w].oldRef # Empty

\* C8: when a step fails for a target no later step runs for it (none at
\* all when the working-directory lookup fails), the outcome carries that
\* step's error, and no step runs twice for a target.
C8_FailureShortCircuits ==
    \A t \in AllPaths :
      /\ \A i \in 1..Len(ran[t]) : ~ran[t][i].ok => i = Len(ran[t])
      /\ \A i, j \in 1..Len(ran[t]) : ran[t][i].step = ran[t][j].step => i = j
      /\ \A i \in 1..Len(ran[t]) : \A o \in OutcomesOf(t) :
           ~ran[t][i].ok => (o.err = ran[t][i].step /\ ran[t][i].step = GitSteps[i])
      /\ \A o \in OutcomesOf(t) : o.err = ErrNoGitDir => ran[t] = <<>>

C8_Witness ==
    \E t \in Targets :
      /\ Len(ran[t]) = 3
      /\ ~ran[t][3].ok
      /\ OutcomesOf(t) # {}
      /\ Returned

NoCheckout(t) ==
    /\ Join(Join(t, "default"), ".git") \notin gitDirs
    /\ Join(t, ".git") \notin gitDirs

\* C9: a target with neither <target>/default/.git nor <target>/.git never
\* has a git command run against it, every outcome returned for it is the
\* "no git dir found" failure with both revisions empty, and it has that
\* outcome when run has returned, whatever the concurrency.
C9_NoCheckoutFails ==
    \A t \in Targets :
      NoCheckout(t) =>
        /\ ran[t] = <<>>
        /\ \A o \in OutcomesOf(t) :
             o.err = ErrNoGitDir /\ o.oldRef = Empty /\ o.newRef = Empty
        /\ (Returned /\ parallel >= 1) => OutcomesOf(t) # {}

C9_Witness ==
    /\ Returned
    /\ parallel = 2
    /\ Len(received) = 2
    /\ received[1].err = NilErr
    /\ received[2].err = ErrNoGitDir
    /\ \E t \in Targets : NoCheckout(t) /\ Base(t) = received[2].dir

MergeFailed(t) == \E i \in 1..Len(ran[t]) : ran[t][i].step = ErrMerge /\ ~ran[t][i].ok

\* C10: when the fast-forward merge fails for a target, neither the worktree
\* prune nor the second rev-parse runs for it, and its outcome is a failure
\* naming the merge step with an empty new revision.
C10_MergeFailureStops ==
    \A t \in Targets :
      MergeFailed(t) =>
        /\ \A i \in 1..Len(ran[t]) : ran[t][i].step \notin {ErrPrune, ErrNewRef}
        /\ \A o \in OutcomesOf(t) : o.err = ErrMerge /\ o.newRef = Empty

C10_Witness ==
    \E t \in Targets :
      /\ MergeFailed(t)
      /\ Returned
      /\ \E o \in OutcomesOf(t) : o.oldRef # Empty
      /\ tracking[ran[t][1].dir] # head[ran[t][1].dir]

PruneFailed(t) == \E i \in 1..Len(ran[t]) : ran[t][i].step = ErrPrune /\ ~ran[t][i].ok

\* C11: when the worktree prune fails for a target, after fetch and merge
\* succeeded, the new HEAD is not read and the outcome is a failure naming
\* the prune step with an empty new revision, never a success.
C11_PruneFailureFails ==
    \A t \in Targets :
      PruneFailed(t) =>
        /\ \A i \in 1..Len(ran[t]) : ran[t][i].step # ErrNewRef
        /\ \E i, j \in 1..Len(ran[t]) :
             /\ ran[t][i].step = ErrFetch /\ ran[t][i].ok
             /\ ran[t][j].step = ErrMerge /\ ran[t][j].ok
        /\ \A o \in OutcomesOf(t) :
             o.err = ErrPrune /\ o.newRef = Empty /\ ~IsSuccess(o)

C11_Witness ==
    \E t \in Targets :
      /\ PruneFailed(t)
      /\ Returned
      /\ OutcomesOf(t) # {}
      /\ head[ran[t][1].dir] = "def456"

\* C13: the reporter prints the outcomes in the order in which the workers
\* handed them over, whatever the order of the queue: line i is the line of
\* the i-th outcome received.  (That a later target can overtake an earlier
\* one is the witness: "b" is reported before "a".)
C13_ArrivalOrder ==
    /\ Len(lines) = Len(received)
    /\ \A i \in 1..Len(lines) : lines[i].name = received[i].dir

C13_Witness ==
    /\ parallel = 2
    /\ TargetNames = <<"a", "b">>
    /\ Len(lines) = 2
    /\ lines[1].name = "b"
    /\ lines[2].name = "a"

\* C14: run returns an error, and Execute exits with a failure, exactly when
\* the directory listing failed; every combination of target outcomes, all
\* failed included, gives success.
C14_ExitStatus ==
    mainpc = "done" =>
      /\ retErr # "none"
      /\ (retErr # NilErr) <=> readErr
      /\ (ExitStatus(retErr) = "ExitFailure") <=> readErr

C14_Witness ==
    /\ mainpc = "done"
    /\ ExitStatus(retErr) = "ExitSuccess"
    /\ Len(received) = 2
    /\ \A i \in 1..2 : received[i].err # NilErr

\* C15: when the directory listing fails run returns an error before
\* anything else happens: no worker is started, no target is queued or
\* claimed, no git command runs and no line is printed.
C15_ListingFailureAborts ==
    readErr =>
      /\ mainpc \in {"ReadDir", "done"}
      /\ mainpc = "done" => retErr \notin {NilErr, "none"}
      /\ Started = {}
      /\ closerpc = "unstarted"
      /\ dirs = <<>>
      /\ lines = <<>>
      /\ \A t \in AllPaths : claims[t] = 0 /\ ran[t] = <<>>

C15_Witness ==
    /\ readErr
    /\ mainpc = "done"
    /\ parallel = 2
    /\ Len(TargetNames) = 2

\* C16: the reporter writes one line per outcome, numbered 1, 2, ... in
\* arrival order (the last number is the number of targets when run has
\* returned); the body is the error text of a failed outcome, the one
\* revision when oldRef = newRef, and "oldRef -> newRef" otherwise.
C16_LineFormat ==
    /\ Len(lines) = Len(received)
    /\ count = Len(lines)
    /\ \A i \in 1..Len(lines) :
         /\ lines[i].ord = i
         /\ lines[i].name = received[i].dir
         /\ received[i].err # NilErr => lines[i].body = <<received[i].err>>
         /\ (received[i].err = NilErr /\ received[i].oldRef = received[i].newRef)
              => lines[i].body = <<received[i].newRef>>
         /\ (received[i].err = NilErr /\ received[i].oldRef # received[i].newRef)
              => lines[i].body = <<received[i].oldRef, "->", received[i].newRef>>
    /\ (Returned /\ parallel >= 1) => count = Len(TargetNames)

C16_Witness ==
    /\ Returned
    /\ Len(lines) = 2
    /\ lines[1].body = <<"abc123">>
    /\ lines[2].body = <<"abc123", "->", "def456">>
    /\ lines[2].ord = 2

\* C17: with no directory among the entries and concurrency >= 1, no target
\* is ever processed or reported, and under fair scheduling every worker
\* exits, the result channel is closed and run returns nil.
C17_EmptyTargetList ==
    (TargetNames = <<>> /\ parallel >= 1 /\ ~readErr) =>
      /\ [](/\ received = <<>>
            /\ lines = <<>>
            /\ \A w \in Workers : pc[w] \in {"unstarted", "range", "exited"})
      /\ <>(/\ Returned
            /\ resc = "closed"
            /\ Cardinality(Started) = parallel
            /\ \A w \in Started : pc[w] = "exited")

C17_Witness ==
    /\ Returned
    /\ TargetNames = <<>>
    /\ Len(des) = 2
    /\ parallel = 2
    /\ \A w \in Workers : pc[w] = "exited"
    /\ received = <<>>

\* The git command of each step, in the order of the code.
StepCmds == <<"rev-parse --short HEAD", "rev-parse --abbrev-ref origin/HEAD",
              "checkout", "fetch", "merge --ff-only", "worktree prune",
              "rev-parse --short HEAD">>

\* C19: the commands run against a target are a prefix of the fixed sequence
\* old HEAD, remote default branch, checkout, fetch, merge, prune, new HEAD,
\* and a command runs only after all earlier ones of the target succeeded.
C19_StepsInOrder ==
    \A t \in AllPaths :
      /\ Len(ran[t]) <= Len(GitSteps)
      /\ \A i \in 1..Len(ran[t]) :
           /\ ran[t][i].step = GitSteps[i]
           /\ ran[t][i].cmd = StepCmds[i]
           /\ \A j \in 1..(i - 1) : ran[t][j].ok
      /\ \A i \in 1..Len(ran[t]) : ran[t][i].cmd = "checkout" => ran[t][i].arg = "main"

C19_Witness ==
    \E s, t \in Targets :
      /\ Len(ran[s]) = 7
      /\ ran[s][7].ok
      /\ Len(ran[t]) = 4
      /\ ~ran[t][4].ok

\* The working directory syncRepo is to use for target t.
ResolvedWd(t) ==
    IF Join(Join(t, "default"), ".git") \in gitDirs THEN Join(t, "default") ELSE t

\* C20: every command of a target runs in <target>/default when
\* <target>/default/.git exists, also when <target>/.git exists too, and in
\* <target> only when <target>/default/.git does not exist and <target>/.git
\* does; all commands of one target run in the same directory.
C20_WorkingDirectory ==
    \A t \in AllPaths :
      /\ \A i \in 1..Len(ran[t]) : ran[t][i].dir = ResolvedWd(t)
      /\ ran[t] # <<>> => ~NoCheckout(t)
      /\ \A w \in Workers :
           (dir[w] = t /\ pc[w] \notin {"resolve", "send"}) => wd[w] = ResolvedWd(t)

C20_Witness ==
    \E s, t \in Targets :
      /\ Join(Join(s, "default"), ".git") \in gitDirs
      /\ Join(s, ".git") \in gitDirs
      /\ Len(ran[s]) = 7
      /\ ran[s][7].dir = Join(s, "default")
      /\ Join(t, ".git") \in gitDirs
      /\ Len(ran[t]) = 7
      /\ ran[t][7].dir = t

\* What syncRepo returns for target t when its commands behave as fate[t]
\* says, computed from the directory layout and the fate alone.
FatedOutcome(t) ==
    LET f == fate[t]
        failed == f.failAt # "none"
    IN  [dir |-> Base(t),
         err |-> IF NoCheckout(t) THEN ErrNoGitDir
                 ELSE IF failed THEN f.failAt ELSE NilErr,
         oldRef |-> IF NoCheckout(t) \/ f.failAt = ErrOldRef THEN Empty ELSE "abc123",
         newRef |-> IF NoCheckout(t) \/ failed THEN Empty ELSE f.ref]

\* C12: when what each command does is fixed per target, the set of outcomes
\* run has reported when it returns is the same for every concurrency from
\* 1 to N and every interleaving: it is the set fixed by the targets alone.
C12_ConcurrencyIndependent ==
    Returned =>
      /\ {received[i] : i \in 1..Len(received)} = {FatedOutcome(t) : t \in Targets}
      /\ Len(received) = Cardinality(Targets)

C12_Witness ==
    /\ Returned
    /\ parallel = 2
    /\ Len(received) = 2
    /\ received[1].dir = "b"
    /\ received[1].err = ErrMerge
    /\ received[2].err = NilErr
    /\ received[2].newRef = "def456"

\* The successful outcomes of the first invocation for target t.
EarlierOutcomesOf(t) == {o \in earlier.outcomes : o.dir = Base(t)}

\* Between the two invocations and during the second, the remote of t got
\* no new commits: the fetch of the second invocation left the upstream ref
\* where the first invocation's fetch put it.
RemoteUnchanged(t) == tracking[ResolvedWd(t)] = earlier.tracking[ResolvedWd(t)]

\* C18 as stated: a target synced successfully and synced again with an
\* unchanged remote has, in the second invocation, a successful outcome with
\* oldRef = newRef = the first invocation's newRef.
C18_SecondRunSucceeds ==
    runNo = 2 =>
      \A t \in Targets : \A o1 \in EarlierOutcomesOf(t) :
        (IsSuccess(o1) /\ RemoteUnchanged(t)) =>
          \A o2 \in OutcomesOf(t) :
            /\ IsSuccess(o2)
            /\ o2.oldRef = o2.newRef
            /\ o2.newRef = o1.newRef

\* C18, amended: a target synced successfully and synced again with an
\* unchanged remote keeps its checkout at the first invocation's newRef;
\* the second outcome reports that revision as oldRef whenever it reports
\* one, and when every command of the second invocation succeeds it is a
\* success with oldRef = newRef = the first invocation's newRef.  A command
\* of the second invocation can still fail, and then the outcome is a
\* failure with an empty newRef.
C18_Idempotent ==
    runNo = 2 =>
      \A t \in Targets : \A o1 \in EarlierOutcomesOf(t) :
        (IsSuccess(o1) /\ RemoteUnchanged(t)) =>
          /\ head[ResolvedWd(t)] = o1.newRef
          /\ \A o2 \in OutcomesOf(t) :
               /\ o2.oldRef # Empty => o2.oldRef = o1.newRef
               /\ o2.err = NilErr => (IsSuccess(o2) /\ o2.oldRef = o2.newRef
                                                    /\ o2.newRef = o1.newRef)
               /\ o2.err # NilErr => (IsFailure(o2) /\ o2.newRef = Empty)

C18_Witness ==
    /\ runNo = 2
    /\ Returned
    /\ earlier.outcomes =
         {[dir |-> "a", err |-> NilErr, oldRef |-> "abc123", newRef |-> "def456"]}
    /\ RemoteUnchanged(Join(baseDir, "a"))
    /\ received =
         <<[dir |-> "a", err |-> NilErr, oldRef |-> "def456", newRef |-> "def456"]>>

\* A revision of a branch that is not the default branch.
FeatureRef == "fea789"

\* A run over checkouts that may have another branch than the default
\* branch checked out.
BranchInit ==
    /\ InitRun
    /\ GhIdle
    /\ TmpIdle
    /\ fate = [t \in AllPaths |-> AnyFate]
    /\ LET wds == {ResolvedWd(t) :
                     t \in {u \in Targets : (LayoutPaths(u, "both") \cap gitDirs) # {}}}
       IN  \E h \in [wds -> {"abc123", FeatureRef}] :
             head = [r \in Repos |-> IF r \in wds THEN h[r] ELSE "abc123"]
    /\ presync = head

BranchSpec == BranchInit /\ [][Next]_vars

\* The successful runs of step s against t that printed line.
Printed(t, s, line) ==
    \E i \in 1..Len(ran[t]) :
      /\ ran[t][i].step = s
      /\ ran[t][i].ok
      /\ TrimSpace(ran[t][i].out) = <<line>>

MergeChangedNothing(t) == Printed(t, ErrMerge, "Already up to date.")

CheckoutSwitched(t) == Printed(t, ErrCheckout, "Switched to branch")

\* What C21 says of failures: newRef is empty, oldRef is empty exactly for a
\* failure at the working-directory lookup or at reading the old HEAD, and
\* otherwise is HEAD as it was before the sync.
FailureRevisions(t, o) ==
    IsFailure(o) =>
      /\ o.newRef = Empty
      /\ o.oldRef = Empty <=> o.err \in {ErrNoGitDir, ErrOldRef}
      /\ o.oldRef # Empty => o.oldRef = presync[ResolvedWd(t)]

\* C21 as stated: the above for every failure, and in every success on
\* which the merge changed nothing newRef equals oldRef.
C21_MergeNoopKeepsRevision ==
    \A t \in Targets : \A o \in OutcomesOf(t) :
      /\ FailureRevisions(t, o)
      /\ (IsSuccess(o) /\ MergeChangedNothing(t)) => o.newRef = o.oldRef

\* C21, amended: in every failure newRef is empty and oldRef is empty
\* exactly for a failure at the working-directory lookup or at reading the
\* old HEAD, otherwise it is the pre-sync HEAD; in every success oldRef is
\* the pre-sync HEAD and newRef is HEAD after the sync, and they are equal
\* when neither the checkout of the default branch nor the merge moved HEAD.
C21_RevisionFields ==
    \A t \in Targets : \A o \in OutcomesOf(t) :
      /\ FailureRevisions(t, o)
      /\ IsSuccess(o) =>
           /\ o.oldRef = presync[ResolvedWd(t)]
           /\ o.newRef = head[ResolvedWd(t)]
           /\ (MergeChangedNothing(t) /\ ~CheckoutSwitched(t)) => o.newRef = o.oldRef

C21_Witness ==
    /\ Returned
    /\ Len(received) = 2
    /\ received[1] = [dir |-> "a", err |-> NilErr, oldRef |-> "abc123", newRef |-> "abc123"]
    /\ MergeChangedNothing(Join(baseDir, "a"))
    /\ ~CheckoutSwitched(Join(baseDir, "a"))
    /\ received[2] = [dir |-> "b", err |-> ErrFetch, oldRef |-> FeatureRef, newRef |-> Empty]

\* How many times the targets in S were received from the queue.
RECURSIVE SumClaims(_)
SumClaims(S) ==
    IF S = {}
    THEN 0
    ELSE LET t == CHOOSE x \in S : TRUE
         IN  claims[t] + SumClaims(S \ {t})

\* The targets a worker has claimed and whose outcome the reporter has not
\* yet received.
InFlight == SumClaims(AllPaths) - Len(received)

\* C24: the number of targets claimed by a worker and not yet received by
\* the reporter never exceeds the number of workers started, which is
\* c.parallel (none when c.parallel is not positive), nor the number of
\* targets.
C24_BoundedConcurrency ==
    /\ InFlight <= spawned
    /\ spawned <= (IF parallel > 0 THEN parallel ELSE 0)
    /\ parallel >= 0 => InFlight <= parallel
    /\ InFlight <= Cardinality(Targets)

C24_Witness ==
    /\ parallel = MaxParallel
    /\ InFlight = parallel
    /\ \A w \in Workers : InSyncRepo(w)

\* The workers that hold a target.
Holders == {w \in Workers : dir[w] # NoDir}

\* Every target that was claimed and not yet received is held by one
\* worker, and a worker offering an outcome offers the outcome of the target
\* it holds: it has not gone on to another target.
OneTargetPerWorker ==
    /\ InFlight = Cardinality(Holders)
    /\ \A w \in Workers : pc[w] = "send" => res[w].dir = Base(dir[w])
    /\ \A w \in Workers : pc[w] \in {"unstarted", "range", "exited"} => dir[w] = NoDir

\* The reporter has received k results and receives nothing more although
\* the result channel stays open.
ReporterStalledAt(k) == <>[](mainpc = "report" /\ resc = "open" /\ count = k)

\* C25 as stated: a worker holds one target until its outcome is received,
\* and if the reporter stops receiving every worker that was started ends
\* up blocked on its send.
C25_AllWorkersBlock ==
    /\ []OneTargetPerWorker
    /\ \A k \in 0..MaxEntries :
         ReporterStalledAt(k) => <>[](\A w \in Workers : w <= parallel => pc[w] = "send")

\* C25, amended: a worker holds one target until its outcome is received,
\* and if the reporter stops receiving, every worker that has claimed a
\* target ends up blocked on its send, with that one outcome pending; the
\* workers that found the queue empty have returned and block nowhere.
C25_Backpressure ==
    /\ []OneTargetPerWorker
    /\ \A k \in 0..MaxEntries :
         ReporterStalledAt(k) =>
           <>[](/\ \A w \in Workers : pc[w] \in {"unstarted", "send", "exited"}
                /\ \E w \in Workers : pc[w] = "send"
                /\ dirs = <<>> \/ \A w \in Workers : w <= parallel => pc[w] = "send")

C25_Witness ==
    /\ mainpc = "report"
    /\ resc = "open"
    /\ count = 1
    /\ parallel = 2
    /\ pc[1] = "send"
    /\ pc[2] = "exited"
    /\ dirs = <<>>

\* The paths of the first n entries of des that are directories, in order.
DirsAmong(n) ==
    LET ds == SelectSeq(SubSeq(des, 1, n), LAMBDA e : e.isDir)
    IN  [i \in 1..Len(ds) |-> Join(baseDir, ds[i].name)]

\* C26: the queue has room for every entry, so the send of the enqueue loop
\* never blocks; while the loop runs no worker exists and the queue holds
\* the directories among the entries visited; when the first worker is about
\* to be created the queue is closed and holds every target; and afterwards
\* every target is either still queued or has been received by a worker
\* once, so none was added.
C26_QueuePreloaded ==
    /\ (mainpc # "ReadDir" /\ retErr \in {"none", NilErr}) => dirsCap = Len(des)
    /\ Len(dirs) <= dirsCap
    /\ Cardinality(Targets) <= Len(des)
    /\ (mainpc = "enqueue" /\ idx <= Len(des) /\ des[idx].isDir) =>
         (Len(dirs) < dirsCap /\ ~dirsClosed)
    /\ mainpc = "enqueue" =>
         /\ dirs = DirsAmong(idx - 1)
         /\ \A w \in Workers : pc[w] = "unstarted"
    /\ (mainpc = "spawn" /\ spawned = 0) =>
         /\ dirsClosed
         /\ dirs = DirsAmong(Len(des))
         /\ \A w \in Workers : pc[w] = "unstarted"
    /\ (\E w \in Workers : pc[w] # "unstarted") => dirsClosed
    /\ dirsClosed => Len(dirs) + SumClaims(AllPaths) = Cardinality(Targets)

C26_Witness ==
    /\ mainpc = "spawn"
    /\ spawned = 0
    /\ parallel = 2
    /\ dirsClosed
    /\ dirsCap = 2
    /\ dirs = <<Join(baseDir, "b")>>

\* No worker was started and nothing was processed or reported.
NothingDone ==
    /\ spawned = 0
    /\ wgCount = 0
    /\ \A w \in Workers : pc[w] = "unstarted"
    /\ received = <<>>
    /\ lines = <<>>
    /\ \A t \in AllPaths : ran[t] = <<>> /\ claims[t] = 0

\* C27: c.parallel is used as it is: with c.parallel <= 0 no worker is ever
\* started and nothing is processed or reported; once the closer goroutine
\* runs, the result channel is closed without waiting for anything; and when
\* the base directory can be listed run returns nil, with every target still
\* in the queue.
C27_NoWorkers ==
    /\ [](parallel <= 0 =>
            /\ NothingDone
            /\ closerpc = "wait" => ENABLED CloserWait
            /\ mainpc = "done" =>
                 \/ readErr /\ retErr = "sync: read"
                 \/ /\ retErr = NilErr
                    /\ ExitStatus(retErr) = "ExitSuccess"
                    /\ resc = "closed"
                    /\ dirs = DirsAmong(Len(des)))
    /\ (parallel <= 0 /\ ~readErr) ~> Returned

C27_Witness ==
    /\ parallel <= 0
    /\ Returned
    /\ Len(dirs) = 2
    /\ NothingDone

\* C22: with -prune and -dryrun both unset, no directory that was in the
\* current directory when github-sync started has been removed.
C22_PruneOnlyWithFlag ==
    (~ghFlags.prune /\ ~ghFlags.dryrun) =>
      \A n \in RepoNames : disk0[n] = "dir" => disk[n] = "dir"

\* C23: whenever `repos last` has printed a directory and no `repos new` has
\* created one since, the directory printed is the one the latest
\* `repos new` of the sequence created.
C23_LastIsLatest ==
    (printed # <<>> /\ latest # <<>>) => printed = latest

====
